---- MODULE Spec2Model ----
(***************************************************************************)
(* A model of the secret-gated forwarding proxy.  The repository holds     *)
(* several near-duplicate handlers (the file that is deployed as           *)
(* /api/proxy.js); `variant` says which one is deployed.  A handler runs   *)
(* to completion between two awaits, so one action is one run of the code  *)
(* from a resumption point to the next await or to the response.           *)
(***************************************************************************)
EXTENDS Integers, FiniteSets, Sequences, TLC

VARIABLES variant, env, now, rateMap, slots

vars == <<variant, env, now, rateMap, slots>>

(***************************************************************************)
(* Bounds of the model.                                                    *)
(***************************************************************************)
MaxRate == 2        \* largest RATE_LIMIT_MAX that is configured
Window == 1         \* the RATE_LIMIT_WINDOW_MS that is configured, in clock ticks
NSlots == 2         \* handler invocations that may be in flight together

MaxTime == Window + 1
MaxCount == MaxRate + 2
Slots == 1..NSlots

(***************************************************************************)
(* JavaScript values.                                                      *)
(***************************************************************************)
Absent == "<absent>"                       \* undefined / null / header not sent
Falsy(v) == v \in {Absent, ""}
Or(a, b) == IF Falsy(a) THEN b ELSE a      \* a || b

SizeCeiling == 200000

\* parseInt(s, 10) of the content-length values the clients send
ParseInt(s) ==
  CASE s = "200000" -> 200000
    [] s = "200001" -> 200001
    [] s = "17" -> 17
    [] OTHER -> -1

\* JSON.parse(text): ok = FALSE stands for the SyntaxError it throws
JSONParse(text) ==
  CASE text = "{\"ok\":true}" -> [ok |-> TRUE, value |-> [ok |-> TRUE]]
    [] text = "{\"raw\":\"Accepted\"}" -> [ok |-> TRUE, value |-> [raw |-> "Accepted"]]
    [] OTHER -> [ok |-> FALSE, value |-> [syntaxError |-> text]]

(***************************************************************************)
(* The inputs the environment chooses.                                     *)
(***************************************************************************)
GoodSecret == "s3cret"
UpstreamUrl == "https://n8n.example/webhook/plan"

Methods == {"OPTIONS", "GET", "POST"}
SecretHeaders == {Absent, GoodSecret, "wrong"}
ContentLengths == {Absent, "200000", "200001"}
ForwardedFor == {Absent, "10.0.0.1"}
UpStatuses == {200, 404, 500}
UpTexts == {"{\"ok\":true}", "Accepted"}
InBodies == {"", "{\"q\":1}"}
InternalToken == "t0ken"
ContentTypes == {Absent, "text/plain"}

\* the query of the inbound URL: the (name, value) pairs in their order
Param(k, v) == [k |-> k, v |-> v]
NoQuery == <<>>
Queries ==
  {NoQuery, <<Param("a", "1")>>, <<Param("a", "1"), Param("a", "2")>>,
   <<Param("_proxy_token", "x"), Param("a", "1")>>}

\* the requests the gate tells apart; they carry no query and no content type
Requests ==
  [method : Methods, xsecret : SecretHeaders, authorization : SecretHeaders,
   clen : ContentLengths, xff : ForwardedFor, ctype : {Absent}, query : {NoQuery}]

Variants ==
  {"node_raw", "node_body", "edge_full", "edge_make", "edge_min", "plan",
   "edge_query", "debug_fwd", "edge_unwrapped", "debug_echo", "debug_node"}

\* INTERNAL_AUTH_TOKEN is optional; N8N_EXPECTED_PROXY_HEADER and
\* ALLOWED_ORIGINS are left unset (their defaults: 'vercel-proxy' and '*')
Envs ==
  [N8N_WEBHOOK_URL : {Absent, UpstreamUrl},
   PROXY_SECRET : {Absent, GoodSecret},
   INTERNAL_AUTH_TOKEN : {Absent},
   RATE_LIMIT_MAX : {MaxRate},
   RATE_LIMIT_WINDOW_MS : {Window}]

(***************************************************************************)
(* Responses.                                                              *)
(***************************************************************************)
NoBody == [empty |-> TRUE]
NoResp == [status |-> 0, body |-> NoBody, cors |-> {}]
ErrorBody(msg) == [error |-> msg]
ErrorDetails(msg, d) == [error |-> msg, details |-> d]
Envelope(s, parsed) == [forwarded |-> TRUE, status |-> s, response |-> parsed]

\* the Access-Control-* headers a response carries, by name
CorsAll == {"origin", "methods", "headers", "max-age"}
CorsOriginOnly == {"origin"}

\* sendJson(res, status, payload) / jsonResponse(status, obj)
sendJson(status, payload, cors) == [status |-> status, body |-> payload, cors |-> cors]

(***************************************************************************)
(* RateLimiter: the fixed-window counter kept in rateMap.                  *)
(***************************************************************************)
RemoteAddress == Absent                    \* the socket reports no peer address
ClientIds == (ForwardedFor \ {Absent}) \cup {"unknown"}
NoEntry == [count |-> 0, windowStart |-> -1]      \* rateMap[ip] is undefined

\* one key for every client
getClientIp_OneKey(r) == "unknown"

getClientIp(r) == Or(r.xff, Or(RemoteAddress, "unknown"))

\* the comparison with the maximum off by one
isRateLimited_OffByOne(rm, ip, t) ==
  LET e == rm[ip]
      fresh == [rm EXCEPT ![ip] = [count |-> 1, windowStart |-> t]]
  IN  IF e = NoEntry THEN [limited |-> FALSE, map |-> fresh]
      ELSE IF t - e.windowStart > env.RATE_LIMIT_WINDOW_MS
             THEN [limited |-> FALSE, map |-> fresh]
      ELSE [limited |-> e.count + 1 >= env.RATE_LIMIT_MAX,
            map |-> [rm EXCEPT ![ip].count = @ + 1]]

\* the window taken as over already when its length has just elapsed
isRateLimited_ResetAtWindow(rm, ip, t) ==
  LET e == rm[ip]
      fresh == [rm EXCEPT ![ip] = [count |-> 1, windowStart |-> t]]
  IN  IF e = NoEntry THEN [limited |-> FALSE, map |-> fresh]
      ELSE IF t - e.windowStart >= env.RATE_LIMIT_WINDOW_MS
             THEN [limited |-> FALSE, map |-> fresh]
      ELSE [limited |-> e.count + 1 > env.RATE_LIMIT_MAX,
            map |-> [rm EXCEPT ![ip].count = @ + 1]]

\* the incremented count compared but not stored
isRateLimited_IncrementLost(rm, ip, t) ==
  LET e == rm[ip]
      fresh == [rm EXCEPT ![ip] = [count |-> 1, windowStart |-> t]]
  IN  IF e = NoEntry THEN [limited |-> FALSE, map |-> fresh]
      ELSE IF t - e.windowStart > env.RATE_LIMIT_WINDOW_MS
             THEN [limited |-> FALSE, map |-> fresh]
      ELSE [limited |-> e.count + 1 > env.RATE_LIMIT_MAX, map |-> rm]

\* a rejection restarts the window
isRateLimited_RejectRestarts(rm, ip, t) ==
  LET e == rm[ip]
      fresh == [rm EXCEPT ![ip] = [count |-> 1, windowStart |-> t]]
      over == e.count + 1 > env.RATE_LIMIT_MAX
  IN  IF e = NoEntry THEN [limited |-> FALSE, map |-> fresh]
      ELSE IF t - e.windowStart > env.RATE_LIMIT_WINDOW_MS
             THEN [limited |-> FALSE, map |-> fresh]
      ELSE [limited |-> over,
            map |-> [rm EXCEPT ![ip] =
                       [count |-> e.count + 1,
                        windowStart |-> IF over THEN t ELSE e.windowStart]]]

isRateLimited(rm, ip, t) ==
  LET e == rm[ip]
      fresh == [rm EXCEPT ![ip] = [count |-> 1, windowStart |-> t]]
  IN  IF e = NoEntry THEN [limited |-> FALSE, map |-> fresh]
      ELSE IF t - e.windowStart > env.RATE_LIMIT_WINDOW_MS
             THEN [limited |-> FALSE, map |-> fresh]
      ELSE [limited |-> e.count + 1 > env.RATE_LIMIT_MAX,
            map |-> [rm EXCEPT ![ip].count = @ + 1]]

(***************************************************************************)
(* RequestGate: the synchronous checks of each handler, in source order.   *)
(* status = 0 means the request passed the gate.                           *)
(***************************************************************************)
Pass(rm) == [status |-> 0, body |-> NoBody, cors |-> {}, map |-> rm]
Reply(status, payload, cors, rm) ==
  [status |-> status, body |-> payload, cors |-> cors, map |-> rm]

\* the two headers read in the other order
providedSecret_AuthorizationFirst(r) == Or(r.authorization, Or(r.xsecret, ""))

\* req.headers['x-proxy-secret'] || req.headers['authorization'] || ''
providedSecret(r) == Or(r.xsecret, Or(r.authorization, ""))

TooLarge(r) == (~Falsy(r.clen)) /\ ParseInt(r.clen) > SizeCeiling

\* the secret only checked for presence
GateNodeRaw_AnySecret(r, rm, t) ==
  IF Falsy(env.N8N_WEBHOOK_URL)
    THEN Reply(500, ErrorBody("Server misconfigured: missing N8N_WEBHOOK_URL"), {}, rm)
  ELSE IF Falsy(env.PROXY_SECRET)
    THEN Reply(500, ErrorBody("Server misconfigured: missing PROXY_SECRET"), {}, rm)
  ELSE IF r.method = "OPTIONS" THEN Reply(204, NoBody, CorsAll, rm)
  ELSE IF Falsy(providedSecret(r))
    THEN Reply(401, ErrorBody("Unauthorized - invalid proxy secret"), CorsAll, rm)
  ELSE LET lim == isRateLimited(rm, getClientIp(r), t)
       IN  IF lim.limited
             THEN Reply(429, ErrorBody("Rate limit exceeded"), CorsAll, lim.map)
           ELSE IF TooLarge(r)
             THEN Reply(413, ErrorBody("Payload too large"), CorsAll, lim.map)
           ELSE Pass(lim.map)

\* the limiter consulted before the secret is checked
GateNodeRaw_LimiterFirst(r, rm, t) ==
  IF Falsy(env.N8N_WEBHOOK_URL)
    THEN Reply(500, ErrorBody("Server misconfigured: missing N8N_WEBHOOK_URL"), {}, rm)
  ELSE IF Falsy(env.PROXY_SECRET)
    THEN Reply(500, ErrorBody("Server misconfigured: missing PROXY_SECRET"), {}, rm)
  ELSE IF r.method = "OPTIONS" THEN Reply(204, NoBody, CorsAll, rm)
  ELSE LET lim == isRateLimited(rm, getClientIp(r), t)
       IN  IF lim.limited
             THEN Reply(429, ErrorBody("Rate limit exceeded"), CorsAll, lim.map)
           ELSE IF Falsy(providedSecret(r)) \/ providedSecret(r) # env.PROXY_SECRET
             THEN Reply(401, ErrorBody("Unauthorized - invalid proxy secret"), CorsAll, lim.map)
           ELSE IF TooLarge(r)
             THEN Reply(413, ErrorBody("Payload too large"), CorsAll, lim.map)
           ELSE Pass(lim.map)

GateNodeRaw(r, rm, t) ==
  IF Falsy(env.N8N_WEBHOOK_URL)
    THEN Reply(500, ErrorBody("Server misconfigured: missing N8N_WEBHOOK_URL"), {}, rm)
  ELSE IF Falsy(env.PROXY_SECRET)
    THEN Reply(500, ErrorBody("Server misconfigured: missing PROXY_SECRET"), {}, rm)
  ELSE IF r.method = "OPTIONS" THEN Reply(204, NoBody, CorsAll, rm)
  ELSE IF Falsy(providedSecret(r)) \/ providedSecret(r) # env.PROXY_SECRET
    THEN Reply(401, ErrorBody("Unauthorized - invalid proxy secret"), CorsAll, rm)
  ELSE LET lim == isRateLimited(rm, getClientIp(r), t)
       IN  IF lim.limited
             THEN Reply(429, ErrorBody("Rate limit exceeded"), CorsAll, lim.map)
           ELSE IF TooLarge(r)
             THEN Reply(413, ErrorBody("Payload too large"), CorsAll, lim.map)
           ELSE Pass(lim.map)

GateNodeBody(r, rm, t) ==
  IF Falsy(env.N8N_WEBHOOK_URL)
    THEN Reply(500, ErrorBody("Server misconfigured: missing N8N_WEBHOOK_URL"), {}, rm)
  ELSE IF Falsy(env.PROXY_SECRET)
    THEN Reply(500, ErrorBody("Server misconfigured: missing PROXY_SECRET"), {}, rm)
  ELSE IF r.method = "OPTIONS" THEN Reply(204, NoBody, CorsAll, rm)
  ELSE IF Falsy(Or(r.xsecret, r.authorization))
          \/ Or(r.xsecret, r.authorization) # env.PROXY_SECRET
    THEN Reply(401, ErrorBody("Unauthorized - invalid proxy secret"), CorsAll, rm)
  ELSE LET lim == isRateLimited(rm, getClientIp(r), t)
       IN  IF lim.limited
             THEN Reply(429, ErrorBody("Rate limit exceeded"), CorsAll, lim.map)
           ELSE IF TooLarge(r)
             THEN Reply(413, ErrorBody("Payload too large"), CorsAll, lim.map)
           ELSE Pass(lim.map)

GateEdgeFull(r, rm, t) ==
  IF Falsy(env.N8N_WEBHOOK_URL)
    THEN Reply(500, ErrorBody("Server misconfigured: missing N8N_WEBHOOK_URL"), {}, rm)
  ELSE IF Falsy(env.PROXY_SECRET)
    THEN Reply(500, ErrorBody("Server misconfigured: missing PROXY_SECRET"), {}, rm)
  ELSE IF r.method = "OPTIONS" THEN Reply(204, NoBody, CorsAll, rm)
  ELSE IF Falsy(providedSecret(r)) \/ providedSecret(r) # env.PROXY_SECRET
    THEN Reply(401, ErrorBody("Unauthorized - invalid proxy secret"), CorsOriginOnly, rm)
  ELSE LET lim == isRateLimited(rm, getClientIp(r), t)
       IN  IF lim.limited
             THEN Reply(429, ErrorBody("Rate limit exceeded"), CorsOriginOnly, lim.map)
           ELSE Pass(lim.map)

GateEdgeMake(r, rm, t) ==
  IF Falsy(r.xsecret) \/ r.xsecret # env.PROXY_SECRET
    THEN Reply(401, ErrorBody("Unauthorized - invalid proxy secret"), {}, rm)
  ELSE Pass(rm)

GateEdgeMin(r, rm, t) ==
  IF Falsy(env.N8N_WEBHOOK_URL) \/ Falsy(env.PROXY_SECRET)
    THEN Reply(500, ErrorBody("Missing env vars"), CorsOriginOnly, rm)
  ELSE IF r.method = "OPTIONS"
    THEN Reply(204, NoBody, {"origin", "methods", "headers"}, rm)
  ELSE IF Falsy(providedSecret(r)) \/ providedSecret(r) # env.PROXY_SECRET
    THEN Reply(401, ErrorBody("Unauthorized"), CorsOriginOnly, rm)
  ELSE Pass(rm)

GatePlan(r, rm, t) ==
  IF r.method = "OPTIONS" THEN Reply(204, NoBody, CorsAll, rm)
  ELSE IF Falsy(env.PROXY_SECRET) \/ Falsy(Or(r.xsecret, r.authorization))
          \/ Or(r.xsecret, r.authorization) # env.PROXY_SECRET
    THEN Reply(401, ErrorBody("Unauthorized - invalid proxy secret"), CorsAll, rm)
  ELSE LET lim == isRateLimited(rm, getClientIp(r), t)
       IN  IF lim.limited
             THEN Reply(429, ErrorBody("Rate limit exceeded. Slow down."), CorsAll, lim.map)
           ELSE IF TooLarge(r)
             THEN Reply(413, ErrorBody("Payload too large"), CorsAll, lim.map)
           ELSE Pass(lim.map)

GateEdgeQuery(r, rm, t) ==
  IF Falsy(env.PROXY_SECRET) \/ Falsy(env.N8N_WEBHOOK_URL)
    THEN Reply(500, ErrorBody("Missing env vars"), {}, rm)
  ELSE IF r.xsecret # env.PROXY_SECRET
    THEN Reply(401, ErrorBody("Unauthorized - bad secret"), {}, rm)
  ELSE Pass(rm)

GateDebugFwd(r, rm, t) ==
  IF Falsy(env.PROXY_SECRET) \/ Falsy(env.N8N_WEBHOOK_URL)
    THEN Reply(500, ErrorBody("Missing env vars"), {}, rm)
  ELSE IF r.xsecret # env.PROXY_SECRET
    THEN Reply(401, ErrorBody("Unauthorized - bad secret"), {}, rm)
  ELSE Pass(rm)

GateUnwrapped(r, rm, t) ==
  IF Falsy(env.PROXY_SECRET) \/ Falsy(env.N8N_WEBHOOK_URL)
    THEN Reply(500, ErrorBody("Missing env vars"), {}, rm)
  ELSE IF r.xsecret # env.PROXY_SECRET
    THEN Reply(401, ErrorBody("Unauthorized"), {}, rm)
  ELSE Pass(rm)

\* the debug endpoints check nothing
GateDebugEcho(r, rm, t) == Pass(rm)
GateDebugNode(r, rm, t) == Pass(rm)

Gate(v, r, rm, t) ==
  CASE v = "node_raw" -> GateNodeRaw(r, rm, t)
    [] v = "node_body" -> GateNodeBody(r, rm, t)
    [] v = "edge_full" -> GateEdgeFull(r, rm, t)
    [] v = "edge_make" -> GateEdgeMake(r, rm, t)
    [] v = "edge_min" -> GateEdgeMin(r, rm, t)
    [] v = "plan" -> GatePlan(r, rm, t)
    [] v = "edge_query" -> GateEdgeQuery(r, rm, t)
    [] v = "debug_fwd" -> GateDebugFwd(r, rm, t)
    [] v = "edge_unwrapped" -> GateUnwrapped(r, rm, t)
    [] v = "debug_echo" -> GateDebugEcho(r, rm, t)
    [] v = "debug_node" -> GateDebugNode(r, rm, t)

(***************************************************************************)
(* What each handler does after its gate.                                  *)
(*   read     how the inbound body is obtained: "stream" (req.on events),  *)
(*            "text" (await req.text()), "parsed" (req.body, no await)     *)
(*   readAll  the body is read for every method, not only POST/PUT/PATCH   *)
(*   guarded  a failed read is caught and replaced by onError              *)
(*   orEmpty  an empty body is replaced by '{}' (for "parsed": an empty    *)
(*            inbound body leaves req.body undefined, JSON.stringify({}))  *)
(*   forwards the handler calls the upstream                               *)
(*   method   "inbound": the outbound method is the inbound one            *)
(*   timer    an AbortController timeout is armed around fetch             *)
(*   mirror   the response status is the upstream status                   *)
(*   wrap     the success body: "envelope", "parsed", "text", "debug"      *)
(*   query    how the inbound query reaches the outbound URL: "object"     *)
(*            (parseQueryParams), "framework" (req.query), "verbatim"      *)
(*            (searchParams.forEach ... append), "none"                    *)
(*   cred     where INTERNAL_AUTH_TOKEN is put: "header" (x-internal-auth),*)
(*            "query" (_proxy_token), "none"                               *)
(*   ctype    the outbound Content-Type: "inbound" (the request's, else    *)
(*            application/json), "fixed" (application/json)                *)
(*   marker   the outbound request carries x-from-proxy                    *)
(***************************************************************************)
ProfNodeRaw ==
  [read |-> "stream", readAll |-> FALSE, guarded |-> TRUE, onError |-> "{}",
   orEmpty |-> TRUE, forwards |-> TRUE, method |-> "inbound", timer |-> TRUE,
   mirror |-> TRUE, wrap |-> "envelope", okCors |-> CorsAll,
   query |-> "object", cred |-> "header", ctype |-> "inbound", marker |-> TRUE]

ProfNodeBody ==
  [read |-> "parsed", readAll |-> FALSE, guarded |-> TRUE, onError |-> "{}",
   orEmpty |-> TRUE, forwards |-> TRUE, method |-> "inbound", timer |-> TRUE,
   mirror |-> TRUE, wrap |-> "envelope", okCors |-> CorsAll,
   query |-> "framework", cred |-> "header", ctype |-> "inbound", marker |-> TRUE]

ProfEdgeFull ==
  [read |-> "text", readAll |-> FALSE, guarded |-> FALSE, onError |-> "{}",
   orEmpty |-> TRUE, forwards |-> TRUE, method |-> "inbound", timer |-> TRUE,
   mirror |-> TRUE, wrap |-> "envelope", okCors |-> CorsOriginOnly,
   query |-> "verbatim", cred |-> "header", ctype |-> "inbound", marker |-> TRUE]

ProfEdgeMake ==
  [read |-> "text", readAll |-> TRUE, guarded |-> FALSE, onError |-> "{}",
   orEmpty |-> FALSE, forwards |-> TRUE, method |-> "POST", timer |-> FALSE,
   mirror |-> TRUE, wrap |-> "text", okCors |-> {},
   query |-> "none", cred |-> "none", ctype |-> "fixed", marker |-> FALSE]

ProfEdgeMin ==
  [read |-> "text", readAll |-> FALSE, guarded |-> FALSE, onError |-> "{}",
   orEmpty |-> FALSE, forwards |-> TRUE, method |-> "inbound", timer |-> FALSE,
   mirror |-> TRUE, wrap |-> "envelope", okCors |-> CorsOriginOnly,
   query |-> "verbatim", cred |-> "none", ctype |-> "inbound", marker |-> TRUE]

ProfPlan ==
  [read |-> "parsed", readAll |-> FALSE, guarded |-> TRUE, onError |-> "{}",
   orEmpty |-> TRUE, forwards |-> TRUE, method |-> "inbound", timer |-> TRUE,
   mirror |-> TRUE, wrap |-> "envelope", okCors |-> CorsAll,
   query |-> "framework", cred |-> "header", ctype |-> "inbound", marker |-> TRUE]

ProfEdgeQuery ==
  [read |-> "text", readAll |-> TRUE, guarded |-> TRUE, onError |-> "{}",
   orEmpty |-> TRUE, forwards |-> TRUE, method |-> "inbound", timer |-> FALSE,
   mirror |-> FALSE, wrap |-> "envelope", okCors |-> {"origin", "methods", "headers"},
   query |-> "verbatim", cred |-> "query", ctype |-> "inbound", marker |-> TRUE]

ProfDebugFwd ==
  [read |-> "text", readAll |-> TRUE, guarded |-> TRUE, onError |-> "{}",
   orEmpty |-> TRUE, forwards |-> TRUE, method |-> "inbound", timer |-> FALSE,
   mirror |-> FALSE, wrap |-> "debug", okCors |-> CorsOriginOnly,
   query |-> "verbatim", cred |-> "query", ctype |-> "inbound", marker |-> TRUE]

ProfUnwrapped ==
  [read |-> "text", readAll |-> TRUE, guarded |-> FALSE, onError |-> "{}",
   orEmpty |-> TRUE, forwards |-> TRUE, method |-> "inbound", timer |-> FALSE,
   mirror |-> TRUE, wrap |-> "parsed", okCors |-> CorsOriginOnly,
   query |-> "verbatim", cred |-> "none", ctype |-> "inbound", marker |-> TRUE]

ProfDebugEcho ==
  [read |-> "text", readAll |-> TRUE, guarded |-> TRUE, onError |-> "",
   orEmpty |-> FALSE, forwards |-> FALSE, method |-> "inbound", timer |-> FALSE,
   mirror |-> FALSE, wrap |-> "debug", okCors |-> CorsOriginOnly,
   query |-> "none", cred |-> "none", ctype |-> "fixed", marker |-> FALSE]

ProfDebugNode ==
  [read |-> "stream", readAll |-> TRUE, guarded |-> TRUE, onError |-> "",
   orEmpty |-> FALSE, forwards |-> FALSE, method |-> "inbound", timer |-> FALSE,
   mirror |-> FALSE, wrap |-> "debug", okCors |-> {},
   query |-> "none", cred |-> "none", ctype |-> "fixed", marker |-> FALSE]

Profile(v) ==
  CASE v = "node_raw" -> ProfNodeRaw
    [] v = "node_body" -> ProfNodeBody
    [] v = "edge_full" -> ProfEdgeFull
    [] v = "edge_make" -> ProfEdgeMake
    [] v = "edge_min" -> ProfEdgeMin
    [] v = "plan" -> ProfPlan
    [] v = "edge_query" -> ProfEdgeQuery
    [] v = "debug_fwd" -> ProfDebugFwd
    [] v = "edge_unwrapped" -> ProfUnwrapped
    [] v = "debug_echo" -> ProfDebugEcho
    [] v = "debug_node" -> ProfDebugNode

(***************************************************************************)
(* ErrorMapper: the catch blocks.  stage says where the error was thrown:  *)
(* "body" (reading the inbound body), "build" (new URL), "fetch" (the      *)
(* outbound call), "text" (reading the upstream body).  status = 0 means   *)
(* that no catch block covers the throw: the handler's promise rejects.    *)
(***************************************************************************)
Uncaught == [status |-> 0, body |-> NoBody, cors |-> {}]

CatchNodeRaw(name, stage) ==
  IF name = "AbortError"
    THEN sendJson(504, ErrorBody("Upstream request timed out"), CorsAll)
    ELSE sendJson(500, ErrorDetails("Proxy failed", name), CorsAll)

CatchNodeBody(name, stage) ==
  IF name = "AbortError"
    THEN sendJson(504, ErrorBody("Upstream request timed out"), CorsAll)
    ELSE sendJson(500, ErrorDetails("Proxy failed", name), CorsAll)

CatchEdgeFull(name, stage) ==
  IF name = "AbortError"
    THEN sendJson(504, ErrorBody("Upstream request timed out"), {})
    ELSE sendJson(500, ErrorDetails("Proxy failed", name), {})

CatchEdgeMake(name, stage) ==
  sendJson(500, ErrorDetails("proxy-forward-error", name), {})

CatchEdgeMin(name, stage) ==
  sendJson(500, ErrorDetails("Proxy failed", name), CorsOriginOnly)

\* only the fetch and the reading of its result are inside try
CatchPlan(name, stage) ==
  IF stage \notin {"fetch", "text"} THEN Uncaught
  ELSE IF name = "AbortError"
    THEN sendJson(504, ErrorBody("Upstream request timed out"), CorsAll)
    ELSE sendJson(500, ErrorDetails("Proxy failed", name), CorsAll)

CatchEdgeQuery(name, stage) ==
  sendJson(500, ErrorDetails("Proxy crashed", name), {})

\* the inner try around fetch and upstream.text() answers 502
CatchDebugFwd(name, stage, url) ==
  IF stage \in {"fetch", "text"}
    THEN sendJson(502, [error |-> "Upstream fetch failed", details |-> name,
                        forwardUrl |-> url], {})
    ELSE sendJson(500, ErrorDetails("Proxy crashed", name), {})

\* this handler has no try block
CatchUnwrapped(name, stage) == Uncaught

CatchDebugEcho(name, stage) ==
  sendJson(500, ErrorDetails("proxy-debug-crash", name), {})

CatchDebugNode(name, stage) == sendJson(500, ErrorBody(name), {})

Catch(v, name, stage, url) ==
  CASE v = "node_raw" -> CatchNodeRaw(name, stage)
    [] v = "node_body" -> CatchNodeBody(name, stage)
    [] v = "edge_full" -> CatchEdgeFull(name, stage)
    [] v = "edge_make" -> CatchEdgeMake(name, stage)
    [] v = "edge_min" -> CatchEdgeMin(name, stage)
    [] v = "plan" -> CatchPlan(name, stage)
    [] v = "edge_query" -> CatchEdgeQuery(name, stage)
    [] v = "debug_fwd" -> CatchDebugFwd(name, stage, url)
    [] v = "edge_unwrapped" -> CatchUnwrapped(name, stage)
    [] v = "debug_echo" -> CatchDebugEcho(name, stage)
    [] v = "debug_node" -> CatchDebugNode(name, stage)

(***************************************************************************)
(* One handler invocation.                                                 *)
(*   pc       "idle", "body" (awaiting the inbound body), "fetch"          *)
(*            (awaiting the upstream's status line), "text" (awaiting the  *)
(*            upstream's body), "done" (response sent), "crashed" (the     *)
(*            handler's promise rejected, no response was produced)        *)
(*   timer    "none", "armed", "fired", "cleared"                          *)
(*   call     the outbound call: "none", "open", "done", "aborted",        *)
(*            "failed"                                                     *)
(***************************************************************************)
PayloadMethods == {"POST", "PUT", "PATCH"}
ReadError == "<read error>"

NoReq ==
  [method |-> Absent, xsecret |-> Absent, authorization |-> Absent,
   clen |-> Absent, xff |-> Absent, ctype |-> Absent, query |-> NoQuery]
NoUrl == [base |-> Absent, query |-> NoQuery]
NoHeaders == [n \in {} |-> Absent]
NoOut == [method |-> Absent, body |-> Absent, url |-> NoUrl, headers |-> NoHeaders]
NoUp == [status |-> 0, text |-> Absent]

IdleSlot ==
  [pc |-> "idle", req |-> NoReq, body |-> Absent, bodyRead |-> FALSE,
   timer |-> "none", call |-> "none", out |-> NoOut, up |-> NoUp, resp |-> NoResp]

Respond(s, resp) == [s EXCEPT !.pc = "done", !.resp = resp]

Throw(s, name, stage) ==
  LET c == Catch(variant, name, stage, s.out.url)
  IN  IF c.status = 0 THEN [s EXCEPT !.pc = "crashed"] ELSE Respond(s, c)

DebugEchoBody(s) ==
  [debug |-> TRUE, N8N_WEBHOOK_URL |-> env.N8N_WEBHOOK_URL,
   PROXY_SECRET_SET |-> ~Falsy(env.PROXY_SECRET),
   INTERNAL_AUTH_TOKEN_SET |-> ~Falsy(env.INTERNAL_AUTH_TOKEN),
   receivedHeaders |-> [xsecret |-> s.req.xsecret, authorization |-> s.req.authorization],
   rawBody |-> s.body]

\* for (const [k, v] of url.searchParams.entries()) obj[k] = v: one property
\* for each name, in the order of first insertion, holding the last value
RECURSIVE parseQueryParamsFrom(_, _)
parseQueryParamsFrom(q, i) ==
  IF i > Len(q) THEN <<>>
  ELSE LET last == CHOOSE j \in 1..Len(q) :
                     /\ q[j].k = q[i].k
                     /\ \A l \in (j + 1)..Len(q) : q[l].k # q[i].k
       IN  (IF \A j \in 1..(i - 1) : q[j].k # q[i].k
              THEN <<Param(q[i].k, q[last].v)>> ELSE <<>>)
           \o parseQueryParamsFrom(q, i + 1)

parseQueryParams(q) == parseQueryParamsFrom(q, 1)

\* String(array): the values of a repeated name, joined by commas
Joined(vs) ==
  CASE Len(vs) = 1 -> vs[1]
    [] vs = <<"1", "2">> -> "1,2"
    [] OTHER -> "<joined>"

RECURSIVE ValuesOf(_, _, _)
ValuesOf(q, k, i) ==
  IF i > Len(q) THEN <<>>
  ELSE (IF q[i].k = k THEN <<q[i].v>> ELSE <<>>) \o ValuesOf(q, k, i + 1)

\* req.query as the platform fills it: one property for each name; a repeated
\* name holds the array of its values, which append() turns into one string
RECURSIVE reqQueryFrom(_, _)
reqQueryFrom(q, i) ==
  IF i > Len(q) THEN <<>>
  ELSE (IF \A j \in 1..(i - 1) : q[j].k # q[i].k
          THEN <<Param(q[i].k, Joined(ValuesOf(q, q[i].k, 1)))>> ELSE <<>>)
       \o reqQueryFrom(q, i + 1)

reqQuery(q) == reqQueryFrom(q, 1)

\* URLSearchParams.set(k, v): the first pair named k takes the value, the
\* other pairs named k are removed; without such a pair, (k, v) is appended
RECURSIVE searchParamsSetFrom(_, _, _, _)
searchParamsSetFrom(q, k, v, i) ==
  IF i > Len(q) THEN <<>>
  ELSE (IF q[i].k # k THEN <<q[i]>>
        ELSE IF \A j \in 1..(i - 1) : q[j].k # k THEN <<Param(k, v)>>
        ELSE <<>>)
       \o searchParamsSetFrom(q, k, v, i + 1)

searchParamsSet(q, k, v) ==
  IF \E i \in 1..Len(q) : q[i].k = k THEN searchParamsSetFrom(q, k, v, 1)
  ELSE Append(q, Param(k, v))

\* new URL(N8N_WEBHOOK_URL) with the inbound query appended, then the token
forwardUrl(p, r) ==
  LET copied == CASE p.query = "object" -> parseQueryParams(r.query)
                  [] p.query = "framework" -> reqQuery(r.query)
                  [] p.query = "verbatim" -> r.query
                  [] p.query = "none" -> NoQuery
      tokened == IF p.cred = "query" /\ ~Falsy(env.INTERNAL_AUTH_TOKEN)
                   THEN searchParamsSet(copied, "_proxy_token", env.INTERNAL_AUTH_TOKEN)
                   ELSE copied
  IN  [base |-> env.N8N_WEBHOOK_URL, query |-> tokened]

\* every inbound header copied to the outbound request
forwardHeaders_CopyAll(p, r) ==
  [n \in {"content-type", "x-from-proxy", "x-proxy-secret", "authorization"} |->
     CASE n = "content-type" -> Or(r.ctype, "application/json")
       [] n = "x-from-proxy" -> "vercel-proxy"
       [] n = "x-proxy-secret" -> r.xsecret
       [] n = "authorization" -> r.authorization]

\* the headers of the outbound request, by lower-case name
forwardHeaders(p, r) ==
  LET names == {"content-type"}
                 \cup (IF p.marker THEN {"x-from-proxy"} ELSE {})
                 \cup (IF p.cred = "header" /\ ~Falsy(env.INTERNAL_AUTH_TOKEN)
                        THEN {"x-internal-auth"} ELSE {})
  IN  [n \in names |->
         CASE n = "content-type" ->
                IF p.ctype = "inbound" THEN Or(r.ctype, "application/json")
                ELSE "application/json"
           [] n = "x-from-proxy" -> "vercel-proxy"
           [] n = "x-internal-auth" -> env.INTERNAL_AUTH_TOKEN]

\* ForwardBuilder and the start of Forwarder: new URL(...), the timer, fetch(...)
Forward(s) ==
  LET p == Profile(variant)
      m == IF p.method = "inbound" THEN s.req.method ELSE p.method
      built == [s EXCEPT !.out = [method |-> m, body |-> s.body,
                                  url |-> forwardUrl(p, s.req),
                                  headers |-> forwardHeaders(p, s.req)]]
      armed == [built EXCEPT !.timer = IF p.timer THEN "armed" ELSE "none"]
  IN  IF ~p.forwards THEN Respond(s, sendJson(200, DebugEchoBody(s), p.okCors))
      ELSE IF Falsy(env.N8N_WEBHOOK_URL) THEN Throw(s, "TypeError", "build")
      \* fetch refuses a GET or HEAD request that has a body
      ELSE IF m \in {"GET", "HEAD"} /\ s.body # Absent
        THEN Throw(armed, "TypeError", "fetch")
      ELSE [armed EXCEPT !.pc = "fetch", !.call = "open"]

\* the text the handler keeps for an inbound body it has read
Defaulted(p, text) == IF p.orEmpty /\ Falsy(text) THEN "{}" ELSE text

\* a request arrives: the gate, then the code up to the first await
Receive(i, r, b) ==
  /\ slots[i].pc = "idle"
  /\ \A j \in Slots : j < i => slots[j].pc # "idle"
  /\ LET g == Gate(variant, r, rateMap, now)
         p == Profile(variant)
         reads == p.readAll \/ r.method \in PayloadMethods
         s == [IdleSlot EXCEPT !.req = r]
     IN  /\ \A ip \in ClientIds : g.map[ip].count <= MaxCount
         /\ rateMap' = g.map
         /\ slots' = [slots EXCEPT ![i] =
              IF g.status # 0
                THEN Respond(s, [status |-> g.status, body |-> g.body, cors |-> g.cors])
              ELSE IF ~reads THEN Forward(s)
              \* req.body is used after new URL(...), which throws first
              ELSE IF p.read = "parsed"
                THEN IF Falsy(env.N8N_WEBHOOK_URL) THEN Forward(s)
                     ELSE Forward([s EXCEPT !.body = Defaulted(p, b), !.bodyRead = TRUE])
              ELSE [s EXCEPT !.pc = "body"]]
  /\ UNCHANGED <<variant, env, now>>

\* BodyReader: the inbound body arrives (text) or its reading fails
BodyDone(i, outcome) ==
  /\ slots[i].pc = "body"
  /\ LET p == Profile(variant)
         s == [slots[i] EXCEPT !.bodyRead = TRUE]
     IN  slots' = [slots EXCEPT ![i] =
           IF outcome = ReadError
             THEN IF p.guarded THEN Forward([s EXCEPT !.body = Defaulted(p, p.onError)])
                  ELSE Throw(s, "TypeError", "body")
             ELSE Forward([s EXCEPT !.body = Defaulted(p, outcome)])]
  /\ UNCHANGED <<variant, env, now, rateMap>>

\* fetch resolves with the upstream's status line; clearTimeout
FetchResolve(i, status) ==
  /\ slots[i].pc = "fetch"
  /\ slots' = [slots EXCEPT ![i] =
       [@ EXCEPT !.pc = "text", !.up = [status |-> status, text |-> Absent],
                 !.timer = IF @ = "armed" THEN "cleared" ELSE @]]
  /\ UNCHANGED <<variant, env, now, rateMap>>

\* fetch rejects: name resolution, connection or handshake failure
FetchFail(i) ==
  /\ slots[i].pc = "fetch"
  /\ slots' = [slots EXCEPT ![i] =
       Throw([@ EXCEPT !.call = "failed"], "TypeError", "fetch")]
  /\ UNCHANGED <<variant, env, now, rateMap>>

\* ResponseTranslator: what JSON.parse gives, or { raw: text }
Translated(text) ==
  LET j == JSONParse(text) IN IF j.ok THEN j.value ELSE [raw |-> text]

SuccessBody(p, up, url) ==
  CASE p.wrap = "envelope" -> Envelope(up.status, Translated(up.text))
    [] p.wrap = "parsed" -> Translated(up.text)
    [] p.wrap = "text" -> [text |-> up.text]
    [] p.wrap = "debug" ->
         [debug |-> TRUE, forwardUrl |-> url,
          upstreamStatus |-> up.status, upstreamBody |-> up.text]

\* upstream.text() resolves: the response to the client
TextDone(i, text) ==
  /\ slots[i].pc = "text"
  /\ LET p == Profile(variant)
         up == [slots[i].up EXCEPT !.text = text]
     IN  slots' = [slots EXCEPT ![i] =
           Respond([@ EXCEPT !.up = up, !.call = "done"],
                   sendJson(IF p.mirror THEN up.status ELSE 200,
                            SuccessBody(p, up, @.out.url), p.okCors))]
  /\ UNCHANGED <<variant, env, now, rateMap>>

\* upstream.text() rejects: the connection broke while the body was read
TextFail(i) ==
  /\ slots[i].pc = "text"
  /\ slots' = [slots EXCEPT ![i] =
       Throw([@ EXCEPT !.call = "failed"], "TypeError", "text")]
  /\ UNCHANGED <<variant, env, now, rateMap>>

\* setTimeout(() => controller.abort(), timeoutMs) fires.  How long the
\* timeout is, measured against the upstream's delay, is the environment's
\* choice: an armed timer may fire before any step of the upstream.
TimerFire(i) ==
  /\ slots[i].timer = "armed"
  /\ slots' = [slots EXCEPT ![i] =
       IF @.pc = "fetch"
         THEN Throw([@ EXCEPT !.timer = "fired", !.call = "aborted"], "AbortError", "fetch")
         ELSE [@ EXCEPT !.timer = "fired"]]
  /\ UNCHANGED <<variant, env, now, rateMap>>

\* the invocation is over and nothing of it is pending
Release(i) ==
  /\ slots[i].pc \in {"done", "crashed"}
  /\ slots[i].timer # "armed"
  /\ slots' = [slots EXCEPT ![i] = IdleSlot]
  /\ UNCHANGED <<variant, env, now, rateMap>>

\* Date.now() advances
Tick ==
  /\ now < MaxTime
  /\ now' = now + 1
  /\ UNCHANGED <<variant, env, rateMap, slots>>

Init ==
  /\ variant \in Variants
  /\ env \in Envs
  /\ now = 0
  /\ rateMap = [ip \in ClientIds |-> NoEntry]
  /\ slots = [i \in Slots |-> IdleSlot]

\* the steps of the handlers, for the inputs the environment may choose:
\* k invocations in flight, requests reqs, inbound body reads bodies,
\* upstream status lines statuses, upstream bodies texts
Step(k, reqs, bodies, statuses, texts) ==
  \/ \E i \in 1..k, r \in reqs, b \in bodies \ {ReadError} : Receive(i, r, b)
  \/ \E i \in Slots, o \in bodies : BodyDone(i, o)
  \/ \E i \in Slots, st \in statuses : FetchResolve(i, st)
  \/ \E i \in Slots : FetchFail(i)
  \/ \E i \in Slots, t \in texts : TextDone(i, t)
  \/ \E i \in Slots : TextFail(i)
  \/ \E i \in Slots : TimerFire(i)
  \/ \E i \in Slots : Release(i)
  \/ Tick

(***************************************************************************)
(* Spec: every request the clients can send, one invocation at a time,     *)
(* against an upstream that answers 200 with a text body, fails or stalls. *)
(***************************************************************************)
Next == Step(1, Requests, {"{\"q\":1}", ReadError}, {200}, {"Accepted"})

Spec == Init /\ [][Next]_vars

(***************************************************************************)
(* SpecUpstream: authenticated requests, one invocation at a time, against *)
(* every behaviour of the inbound body and of the upstream.                *)
(***************************************************************************)
Authenticated ==
  {r \in Requests : r.xsecret = GoodSecret /\ r.authorization = Absent
                    /\ r.clen = Absent /\ r.xff = Absent}

NextUpstream ==
  Step(1, Authenticated, InBodies \cup {ReadError}, UpStatuses, UpTexts)

SpecUpstream == Init /\ [][NextUpstream]_vars

(***************************************************************************)
(* SpecConcurrent: invocations that overlap in time.                       *)
(***************************************************************************)
Overlapping ==
  {r \in Requests :
     /\ r.method = "GET" /\ r.clen = Absent /\ r.xff = Absent
     /\ r.xsecret # GoodSecret \/ r.authorization = Absent}

NextConcurrent == Step(NSlots, Overlapping, {"{\"q\":1}"}, {200}, {"Accepted"})

SpecConcurrent == Init /\ [][NextConcurrent]_vars

(***************************************************************************)
(* SpecForward: what is sent upstream.  The configuration is complete, the *)
(* internal credential is configured or not; the requests present the      *)
(* secret in either header and carry a content type and a query.           *)
(***************************************************************************)
EnvsForward ==
  [N8N_WEBHOOK_URL : {UpstreamUrl},
   PROXY_SECRET : {GoodSecret},
   INTERNAL_AUTH_TOKEN : {Absent, InternalToken},
   RATE_LIMIT_MAX : {MaxRate},
   RATE_LIMIT_WINDOW_MS : {Window}]

Forwarded ==
  {r \in [method : {"GET", "POST"}, xsecret : {Absent, GoodSecret},
          authorization : {Absent, GoodSecret}, clen : {Absent}, xff : {Absent},
          ctype : ContentTypes, query : Queries] :
     (r.xsecret = Absent) # (r.authorization = Absent)}

InitForward ==
  /\ variant \in Variants
  /\ env \in EnvsForward
  /\ now = 0
  /\ rateMap = [ip \in ClientIds |-> NoEntry]
  /\ slots = [i \in Slots |-> IdleSlot]

NextForward == Step(1, Forwarded, {"{\"q\":1}", ReadError}, {200}, {"Accepted"})

SpecForward == InitForward /\ [][NextForward]_vars

(***************************************************************************)
(* SpecClients: overlapping invocations of a rate-limited handler, for     *)
(* requests of several clients that all present the secret; as many        *)
(* invocations may be in flight as there are client identifiers.           *)
(***************************************************************************)
Clients ==
  {r \in Requests :
     /\ r.method = "POST" /\ r.clen = Absent
     /\ r.xsecret = GoodSecret /\ r.authorization = Absent}

InitClients ==
  /\ variant \in {"node_raw", "node_body", "edge_full", "plan"}
  /\ env \in Envs
  /\ now = 0
  /\ rateMap = [ip \in ClientIds |-> NoEntry]
  /\ slots = [i \in Slots |-> IdleSlot]

NextClients ==
  Step(Cardinality(ClientIds), Clients, {"{\"q\":1}"}, {200}, {"Accepted"})

SpecClients == InitClients /\ [][NextClients]_vars

(***************************************************************************)
(* SpecTimeout: SpecUpstream with the one progress the runtime guarantees: *)
(* a timer that is armed fires.  Nothing is assumed of the upstream, which *)
(* may answer, fail, or stay silent for ever.                              *)
(***************************************************************************)
SpecTimeout ==
  Init /\ [][NextUpstream]_vars /\ \A i \in Slots : WF_vars(TimerFire(i))

(***************************************************************************)
(* Vocabulary of the properties.                                           *)
(***************************************************************************)
ConfigComplete == ~Falsy(env.N8N_WEBHOOK_URL) /\ ~Falsy(env.PROXY_SECRET)

\* the secret a request presents: the dedicated header, else Authorization
Presented(r) == IF r.xsecret \in {Absent, ""} THEN r.authorization ELSE r.xsecret
PresentsSecret(r) == Presented(r) \notin {Absent, ""} /\ Presented(r) = env.PROXY_SECRET

Live(i) == slots[i].pc # "idle"
Answered(i) == slots[i].pc = "done"
Forwarding == Profile(variant).forwards
HasLimiter == variant \in {"node_raw", "node_body", "edge_full", "plan"}
HasError(i) == "error" \in DOMAIN slots[i].resp.body

(***************************************************************************)
(* C1: an outbound call is issued only for a request that presented        *)
(* exactly the configured secret, under a configuration that has both the  *)
(* upstream URL and the secret; whatever else is in flight.                *)
(***************************************************************************)
C1_OnlyAuthenticatedReachUpstream ==
  \A i \in Slots :
    slots[i].call # "none" => ConfigComplete /\ PresentsSecret(slots[i].req)

\* a call is open for one request while another was turned away with 401
C1_Witness ==
  \E i, j \in Slots :
    /\ slots[i].call = "open" /\ slots[i].req.xsecret = Absent
    /\ slots[j].pc = "done" /\ slots[j].resp.status = 401

(***************************************************************************)
(* C2 as the specification states it: every request with a missing or     *)
(* mismatched authentication header is answered 401 with an `error`        *)
(* field, regardless of payload or method.                                 *)
(***************************************************************************)
C2_UnauthenticatedAlways401 ==
  \A i \in Slots :
    (Answered(i) /\ ~PresentsSecret(slots[i].req))
      => slots[i].resp.status = 401 /\ HasError(i)

(***************************************************************************)
(* C2, amended: under a configuration that has both the upstream URL and   *)
(* the secret, every request other than a preflight (OPTIONS) that a       *)
(* forwarding handler receives with a missing or mismatched secret is      *)
(* answered at once with 401 and an `error` field, whatever its method,    *)
(* declared length and client.                                             *)
(***************************************************************************)
C2_UnauthenticatedNonPreflight401 ==
  \A i \in Slots :
    (/\ Live(i) /\ Forwarding /\ ConfigComplete
     /\ slots[i].req.method # "OPTIONS"
     /\ ~PresentsSecret(slots[i].req))
      => Answered(i) /\ slots[i].resp.status = 401 /\ HasError(i)

\* a POST declaring an oversized body, wrong dedicated header, right Authorization
C2_Witness ==
  \E i \in Slots :
    /\ Answered(i) /\ Forwarding /\ ConfigComplete
    /\ slots[i].req.method = "POST" /\ slots[i].req.clen = "200001"
    /\ slots[i].req.xsecret = "wrong" /\ slots[i].req.authorization = GoodSecret
    /\ slots[i].resp.status = 401

(***************************************************************************)
(* C3: when the configuration lacks the upstream URL or the secret, every  *)
(* request other than a preflight is answered 500, and a preflight still   *)
(* gets its bodyless 204.                                                  *)
(***************************************************************************)
C3_MisconfiguredStatus ==
  \A i \in Slots :
    (Live(i) /\ ~ConfigComplete)
      => /\ Answered(i)
         /\ slots[i].req.method # "OPTIONS" => slots[i].resp.status = 500
         /\ slots[i].req.method = "OPTIONS"
              => slots[i].resp.status = 204 /\ slots[i].resp.body = NoBody

(***************************************************************************)
(* C4: for one client identifier, with maximum M and window W: a request   *)
(* that reaches the limiter is counted in the window opened by the first   *)
(* request, it is rejected with 429 exactly when it is beyond the first M  *)
(* of that window, and a request that arrives more than W after the        *)
(* window's first request opens a new window and is allowed.               *)
(***************************************************************************)
ClientOf(r) == IF r.xff \in {Absent, ""} THEN "unknown" ELSE r.xff
ReachesLimiter(r) == r.method # "OPTIONS" /\ PresentsSecret(r)

C4_FixedWindow ==
  [][\A i \in Slots :
       (/\ slots[i].pc = "idle" /\ slots'[i].pc # "idle"
        /\ HasLimiter /\ ConfigComplete /\ ReachesLimiter(slots'[i].req))
         => LET e == rateMap[ClientOf(slots'[i].req)]
                e2 == rateMap'[ClientOf(slots'[i].req)]
                inWindow == e.count > 0 /\ now - e.windowStart <= env.RATE_LIMIT_WINDOW_MS
                rejected == slots'[i].pc = "done" /\ slots'[i].resp.status = 429
            IN  /\ inWindow => e2.windowStart = e.windowStart /\ e2.count = e.count + 1
                /\ ~inWindow => e2.windowStart = now /\ e2.count = 1
                /\ rejected <=> e2.count > env.RATE_LIMIT_MAX]_vars

\* the request after the first M of a window has been rejected
C4_Witness ==
  \E i \in Slots :
    /\ Answered(i) /\ slots[i].resp.status = 429
    /\ rateMap[ClientOf(slots[i].req)].count = env.RATE_LIMIT_MAX + 1

(***************************************************************************)
(* C5: a timeout guards every outbound call that is in flight, so that an  *)
(* upstream that never answers is cut off: the timer fires, the call is    *)
(* aborted and the client gets 504, and the call is not left open.         *)
(***************************************************************************)
C5_TimeoutCutsCall ==
  \A i \in Slots :
    /\ slots[i].pc = "fetch" => slots[i].timer = "armed"
    /\ slots[i].timer = "fired" /\ slots[i].call = "aborted"
         => Answered(i) /\ slots[i].resp.status = 504
    /\ Answered(i) => slots[i].call # "open"

(***************************************************************************)
(* C6: an outbound call that fails at transport level before any response  *)
(* (and not by the timeout) gives the client 502.                          *)
(***************************************************************************)
C6_TransportFailure502 ==
  \A i \in Slots :
    (slots[i].call = "failed" /\ slots[i].up.status = 0)
      => Answered(i) /\ slots[i].resp.status = 502

(***************************************************************************)
(* C7: when the upstream call completed with a response, the status sent   *)
(* to the client is the upstream's status, whatever it is.                 *)
(***************************************************************************)
C7_StatusMirrorsUpstream ==
  \A i \in Slots :
    (Answered(i) /\ slots[i].call = "done")
      => slots[i].resp.status = slots[i].up.status

(***************************************************************************)
(* C8: for an upstream response with status s and text t the client gets   *)
(* the envelope {forwarded: true, status: s, response: r}, r being the     *)
(* decoding of t when t decodes and {raw: t} when it does not.             *)
(***************************************************************************)
C8_Envelope ==
  \A i \in Slots :
    (Answered(i) /\ slots[i].call = "done")
      => slots[i].resp.body =
           [forwarded |-> TRUE, status |-> slots[i].up.status,
            response |-> IF JSONParse(slots[i].up.text).ok
                           THEN JSONParse(slots[i].up.text).value
                           ELSE [raw |-> slots[i].up.text]]

(***************************************************************************)
(* C9: an authenticated POST, PUT or PATCH whose declared content length   *)
(* exceeds 200000 is rejected with 413; none of its body is read and no    *)
(* outbound call is issued for it.                                         *)
(***************************************************************************)
C9_OversizedRejected ==
  \A i \in Slots :
    (/\ Live(i) /\ Forwarding /\ ConfigComplete
     /\ PresentsSecret(slots[i].req)
     /\ slots[i].req.method \in {"POST", "PUT", "PATCH"}
     /\ slots[i].req.clen = "200001")
      => /\ Answered(i) /\ slots[i].resp.status = 413
         /\ ~slots[i].bodyRead /\ slots[i].call = "none"

(***************************************************************************)
(* C10: a preflight (OPTIONS) request always ends with a bodyless 204 that *)
(* carries the CORS headers (origin, methods, headers); whatever secret or *)
(* length it carries, no body is read and no outbound call is issued.      *)
(***************************************************************************)
C10_PreflightShortCircuit ==
  \A i \in Slots :
    (Live(i) /\ slots[i].req.method = "OPTIONS")
      => /\ Answered(i) /\ slots[i].resp.status = 204
         /\ slots[i].resp.body = NoBody
         /\ {"origin", "methods", "headers"} \subseteq slots[i].resp.cors
         /\ ~slots[i].bodyRead /\ slots[i].call = "none"

(***************************************************************************)
(* C11: the headers of every outbound request are among Content-Type, the  *)
(* proxy marker x-from-proxy and the internal-credential header            *)
(* x-internal-auth.  Content-Type is always sent and is application/json   *)
(* when the inbound request has none; x-internal-auth is sent only when    *)
(* the credential is configured and holds it; no outbound header holds     *)
(* what the client sent in x-proxy-secret or in Authorization.             *)
(***************************************************************************)
AllowedOutbound == {"content-type", "x-from-proxy", "x-internal-auth"}

C11_OutboundHeaderAllowList ==
  \A i \in Slots :
    slots[i].call # "none"
      => LET h == slots[i].out.headers
             r == slots[i].req
         IN  /\ DOMAIN h \subseteq AllowedOutbound
             /\ "content-type" \in DOMAIN h
             /\ Falsy(r.ctype) => h["content-type"] = "application/json"
             /\ "x-internal-auth" \in DOMAIN h
                  => /\ ~Falsy(env.INTERNAL_AUTH_TOKEN)
                     /\ h["x-internal-auth"] = env.INTERNAL_AUTH_TOKEN
             /\ \A n \in DOMAIN h :
                  h[n] \notin ({r.xsecret, r.authorization, env.PROXY_SECRET} \ {Absent})

\* a call is open for a request that presented the secret in Authorization
\* and had no content type, with the internal credential in its header
C11_Witness ==
  \E i \in Slots :
    /\ slots[i].call = "open"
    /\ slots[i].req.authorization = GoodSecret /\ slots[i].req.ctype = Absent
    /\ DOMAIN slots[i].out.headers = AllowedOutbound

(***************************************************************************)
(* C12: no response to a client holds the configured upstream URL, the     *)
(* shared secret or the internal credential, on any path.                  *)
(***************************************************************************)
\* the strings a response body carries in its fields
Disclosed(b) ==
  (IF "error" \in DOMAIN b THEN {b.error} ELSE {})
  \cup (IF "details" \in DOMAIN b THEN {b.details} ELSE {})
  \cup (IF "N8N_WEBHOOK_URL" \in DOMAIN b THEN {b.N8N_WEBHOOK_URL} ELSE {})
  \cup (IF "receivedHeaders" \in DOMAIN b
          THEN {b.receivedHeaders.xsecret, b.receivedHeaders.authorization} ELSE {})
  \cup (IF "forwardUrl" \in DOMAIN b
          THEN {b.forwardUrl.base}
               \cup {b.forwardUrl.query[j].v : j \in 1..Len(b.forwardUrl.query)}
          ELSE {})

Confidential ==
  {env.N8N_WEBHOOK_URL, env.PROXY_SECRET, env.INTERNAL_AUTH_TOKEN} \ {Absent}

C12_NothingConfidentialInResponses ==
  \A i \in Slots :
    Answered(i) => Disclosed(slots[i].resp.body) \cap Confidential = {}

(***************************************************************************)
(* C13: when the internal credential is configured, every outbound request *)
(* carries it in exactly one place, the x-internal-auth header or the      *)
(* _proxy_token query parameter, never in both; when it is not configured, *)
(* the proxy adds neither.                                                 *)
(***************************************************************************)
CredentialInHeader(o) == "x-internal-auth" \in DOMAIN o.headers

CredentialInQuery(o) ==
  \E j \in 1..Len(o.url.query) :
    o.url.query[j] = Param("_proxy_token", env.INTERNAL_AUTH_TOKEN)

C13_OneCredentialStrategy ==
  \A i \in Slots :
    slots[i].call # "none"
      => IF Falsy(env.INTERNAL_AUTH_TOKEN)
           THEN ~CredentialInHeader(slots[i].out) /\ ~CredentialInQuery(slots[i].out)
           ELSE CredentialInHeader(slots[i].out) # CredentialInQuery(slots[i].out)

(***************************************************************************)
(* C14: for a POST, PUT or PATCH that passed the gate, once the reading of *)
(* the inbound body has ended, by text, by an empty result or by a         *)
(* failure, the outbound call has been issued, and its body is not empty:  *)
(* a failed or empty read has become '{}', not an error response.          *)
(***************************************************************************)
C14_BodyReadFailureDefaults ==
  \A i \in Slots :
    (/\ Live(i) /\ Forwarding /\ ConfigComplete
     /\ slots[i].req.method \in PayloadMethods
     /\ slots[i].bodyRead)
      => /\ slots[i].call # "none"
         /\ slots[i].out.body \notin {Absent, ""}

(***************************************************************************)
(* C15: for a request whose method is not POST, PUT or PATCH, the inbound  *)
(* body is not read and the outbound request has no body.                  *)
(***************************************************************************)
C15_NoBodyForBodylessMethods ==
  \A i \in Slots :
    (Live(i) /\ Forwarding /\ slots[i].req.method \notin PayloadMethods)
      => ~slots[i].bodyRead /\ slots[i].out.body = Absent

(***************************************************************************)
(* C16: no failure leaves the handler: an invocation never ends without a  *)
(* response to the client, and an invocation whose outbound call or whose  *)
(* reading of the upstream's body failed is answered with an error status  *)
(* (500, or the 502 of an unreachable upstream) and an `error` field.      *)
(***************************************************************************)
C16_NoFailureEscapes ==
  \A i \in Slots :
    /\ slots[i].pc # "crashed"
    /\ (Answered(i) /\ slots[i].call = "failed")
         => slots[i].resp.status \in {500, 502} /\ HasError(i)

(***************************************************************************)
(* C17: the size guard runs before the rate limiter: an authenticated      *)
(* request that declares more than 200000 bytes is never answered 429, and *)
(* the step that answers it 413 leaves every rate-limit counter as it was. *)
(***************************************************************************)
C17_SizeGuardBeforeLimiter ==
  [][\A i \in Slots :
       (/\ slots[i].pc = "idle" /\ slots'[i].pc # "idle"
        /\ ConfigComplete /\ ReachesLimiter(slots'[i].req)
        /\ slots'[i].req.clen = "200001")
         => /\ slots'[i].resp.status # 429
            /\ slots'[i].resp.status = 413 => rateMap' = rateMap]_vars

(***************************************************************************)
(* C18: the limiter treats client identifiers independently.  A step       *)
(* changes the entry of an identifier only by receiving a request of that  *)
(* identifier, so a request for k leaves every other entry as it was; and  *)
(* whether that request is rejected is fixed by k's own entry and the      *)
(* time, whatever the other entries hold and whatever else is in flight.   *)
(***************************************************************************)
ReceivedIn(i) == slots[i].pc = "idle" /\ slots'[i].pc # "idle"

C18_ClientsIndependent ==
  [][/\ \A ip \in ClientIds :
          rateMap'[ip] # rateMap[ip]
            => \E i \in Slots : ReceivedIn(i) /\ ClientOf(slots'[i].req) = ip
     /\ \A i \in Slots :
          (ReceivedIn(i) /\ HasLimiter /\ ConfigComplete /\ ReachesLimiter(slots'[i].req))
            => LET e == rateMap[ClientOf(slots'[i].req)]
                   open == e.count > 0 /\ now - e.windowStart <= env.RATE_LIMIT_WINDOW_MS
               IN  (slots'[i].resp.status = 429)
                     <=> (open /\ e.count + 1 > env.RATE_LIMIT_MAX)]_vars

\* one client has been rejected while a call is open for another client,
\* whose window holds one request
C18_Witness ==
  \E i, j \in Slots :
    /\ Answered(i) /\ slots[i].resp.status = 429
    /\ slots[j].call = "open"
    /\ ClientOf(slots[i].req) # ClientOf(slots[j].req)
    /\ rateMap[ClientOf(slots[j].req)].count = 1

(***************************************************************************)
(* C19, for the allow-list '*' (ALLOWED_ORIGINS unset), which permits      *)
(* every origin: every response of a forwarding handler to a request that  *)
(* is not a preflight, whatever its status, carries the                    *)
(* Access-Control-Allow-Origin header.                                     *)
(***************************************************************************)
C19_AllowOriginOnEveryResponse ==
  \A i \in Slots :
    (Answered(i) /\ Forwarding /\ slots[i].req.method # "OPTIONS")
      => "origin" \in slots[i].resp.cors

(***************************************************************************)
(* C20: the outbound URL is the configured upstream URL followed by every  *)
(* (name, value) pair of the inbound query, in the inbound order and with  *)
(* the inbound multiplicity: no pair is dropped, merged or overwritten,    *)
(* also when a name is repeated.                                           *)
(***************************************************************************)
C20_QueryAppendedVerbatim ==
  \A i \in Slots :
    slots[i].call # "none"
      => LET q == slots[i].req.query
             o == slots[i].out.url.query
         IN  /\ slots[i].out.url.base = env.N8N_WEBHOOK_URL
             /\ Len(o) >= Len(q)
             /\ SubSeq(o, 1, Len(q)) = q

(***************************************************************************)
(* C21: under a configuration that lacks the upstream URL or the secret,   *)
(* handling a request changes no rate-limit entry and issues no outbound   *)
(* call, and every request other than a preflight is answered 500, two     *)
(* such requests getting the same response whatever their headers.         *)
(***************************************************************************)
C21_MisconfiguredFailsAlike ==
  ~ConfigComplete
    => /\ rateMap = [ip \in ClientIds |-> NoEntry]
       /\ \A i \in Slots :
            /\ slots[i].call = "none"
            /\ (Live(i) /\ slots[i].req.method # "OPTIONS")
                 => Answered(i) /\ slots[i].resp.status = 500
       /\ \A i, j \in Slots :
            (/\ Answered(i) /\ Answered(j)
             /\ slots[i].req.method # "OPTIONS" /\ slots[j].req.method # "OPTIONS")
              => slots[i].resp = slots[j].resp

(***************************************************************************)
(* C22: a request that reaches the limiter resets its client's window to   *)
(* {count = 1, windowStart = now} exactly when the client has no entry or  *)
(* now - windowStart is greater than the window; otherwise, and so also    *)
(* when now - windowStart equals the window, the count is incremented, the *)
(* windowStart is kept, and the request is rejected exactly when the       *)
(* incremented count exceeds the maximum.                                  *)
(***************************************************************************)
C22_ResetOnlyPastWindow ==
  [][\A i \in Slots :
       (ReceivedIn(i) /\ HasLimiter /\ ConfigComplete /\ ReachesLimiter(slots'[i].req))
         => LET k == ClientOf(slots'[i].req)
                e == rateMap[k]
                resets == e = NoEntry \/ now - e.windowStart > env.RATE_LIMIT_WINDOW_MS
            IN  IF resets
                  THEN /\ rateMap'[k] = [count |-> 1, windowStart |-> now]
                       /\ slots'[i].resp.status # 429
                  ELSE /\ rateMap'[k] = [count |-> e.count + 1, windowStart |-> e.windowStart]
                       /\ (slots'[i].resp.status = 429)
                            <=> (e.count + 1 > env.RATE_LIMIT_MAX)]_vars

\* the latest request came exactly one window after its client's window
\* opened (another client's window opened at the same instant, before it):
\* it was counted in the old window and rejected
C22_Witness ==
  \E i \in Slots, k2 \in ClientIds :
    /\ Answered(i) /\ slots[i].resp.status = 429
    /\ k2 # ClientOf(slots[i].req)
    /\ rateMap[k2].windowStart = now
    /\ now - rateMap[ClientOf(slots[i].req)].windowStart = env.RATE_LIMIT_WINDOW_MS
    /\ rateMap[ClientOf(slots[i].req)].count = env.RATE_LIMIT_MAX + 1

(***************************************************************************)
(* C23: every request for which an outbound call has been issued is        *)
(* eventually answered, whatever the upstream does: also when the upstream *)
(* never answers, or sends its status line and then no body.               *)
(***************************************************************************)
C23_ForwardedEventuallyAnswered ==
  \A i \in Slots : (slots[i].call = "open") ~> (slots[i].pc = "done")

(***************************************************************************)
(* C24: the secret a request presents is its x-proxy-secret header when    *)
(* that is sent and not empty, and its Authorization header otherwise.     *)
(* Under a complete configuration a request other than a preflight is      *)
(* rejected with 401 exactly when what it presents is not the configured   *)
(* secret: the right secret in Authorization alone is accepted, a wrong    *)
(* x-proxy-secret is rejected even beside a right Authorization.           *)
(***************************************************************************)
C24_SecretHeaderPrecedence ==
  \A i \in Slots :
    (Live(i) /\ Forwarding /\ ConfigComplete /\ slots[i].req.method # "OPTIONS")
      => ((Answered(i) /\ slots[i].resp.status = 401)
            <=> ~PresentsSecret(slots[i].req))

(***************************************************************************)
(* C25: the step that answers a request 401 (authentication missing or     *)
(* mismatched) or 204 (preflight) changes no rate-limit entry, and an      *)
(* entry changes only in a step that receives a request which is not a     *)
(* preflight and presents the configured secret.                           *)
(***************************************************************************)
C25_UnauthenticatedLeavesCounters ==
  [][/\ \A i \in Slots :
          (ReceivedIn(i) /\ slots'[i].resp.status \in {401, 204})
            => rateMap' = rateMap
     /\ rateMap' # rateMap
          => \E i \in Slots :
               /\ ReceivedIn(i) /\ ReachesLimiter(slots'[i].req)
               /\ rateMap'[ClientOf(slots'[i].req)] # rateMap[ClientOf(slots'[i].req)]]_vars

\* the latest request, without the secret, was answered 401 when its
\* client's window already held the maximum; the window still holds it
C25_Witness ==
  \E i \in Slots :
    /\ Answered(i) /\ slots[i].resp.status = 401 /\ HasLimiter
    /\ rateMap[ClientOf(slots[i].req)].count = env.RATE_LIMIT_MAX

(***************************************************************************)
(* C26: the limiter reads, checks and increments within one step of one    *)
(* invocation, so no increment is lost whatever else is in flight: a       *)
(* request that reaches the limiter and does not reset its client's window *)
(* leaves the count greater by one, a request that resets it leaves the    *)
(* count at 1, and a request is allowed exactly when the count it leaves   *)
(* is at most the maximum; hence at most M requests are allowed between    *)
(* two resets.  No other step changes an entry.                            *)
(***************************************************************************)
C26_NoLostIncrement ==
  [][/\ (\A i \in Slots : ~ReceivedIn(i)) => rateMap' = rateMap
     /\ \A i \in Slots :
          (ReceivedIn(i) /\ ConfigComplete /\ ReachesLimiter(slots'[i].req))
            => LET e == rateMap[ClientOf(slots'[i].req)]
                   e2 == rateMap'[ClientOf(slots'[i].req)]
               IN  /\ e2.count = IF e2.windowStart = e.windowStart
                                   THEN e.count + 1 ELSE 1
                   /\ (slots'[i].resp.status # 429)
                        <=> (e2.count <= env.RATE_LIMIT_MAX)]_vars

\* two invocations of one client are in flight together, both received at
\* time 0, and the client's count is 2
C26_Witness ==
  \E i, j \in Slots :
    /\ i # j /\ slots[i].call = "open" /\ slots[j].pc = "body"
    /\ ClientOf(slots[i].req) = ClientOf(slots[j].req)
    /\ now = 0
    /\ rateMap[ClientOf(slots[i].req)] = [count |-> 2, windowStart |-> 0]

(***************************************************************************)
(* C27: a request rejected with 429 leaves its client's count greater by   *)
(* one and its windowStart as it was, and a request that reaches the       *)
(* limiter more than the window duration after its client's windowStart    *)
(* restarts the window at the present time with a count of 1 and is not    *)
(* rejected, however many rejections came before.                          *)
(***************************************************************************)
C27_RejectionKeepsWindow ==
  [][\A i \in Slots :
       (ReceivedIn(i) /\ HasLimiter /\ ConfigComplete /\ ReachesLimiter(slots'[i].req))
         => LET e == rateMap[ClientOf(slots'[i].req)]
                e2 == rateMap'[ClientOf(slots'[i].req)]
            IN  /\ (slots'[i].resp.status = 429)
                     => e2 = [count |-> e.count + 1, windowStart |-> e.windowStart]
                /\ (e.count > 0 /\ now - e.windowStart > env.RATE_LIMIT_WINDOW_MS)
                     => /\ slots'[i].resp.status # 429
                        /\ e2 = [count |-> 1, windowStart |-> now]]_vars

\* a client's rejection is still held while its next request, received
\* after the window had passed, is being forwarded in a window of its own
C27_Witness ==
  \E i, j \in Slots :
    /\ Answered(i) /\ slots[i].resp.status = 429
    /\ slots[j].call = "open"
    /\ ClientOf(slots[i].req) = ClientOf(slots[j].req)
    /\ now > env.RATE_LIMIT_WINDOW_MS
    /\ rateMap[ClientOf(slots[j].req)] = [count |-> 1, windowStart |-> now]

(***************************************************************************)
(* C28: once the response to a request has been sent, on whichever path,   *)
(* the forward-timeout timer armed for that request is no longer pending:  *)
(* it has fired or it has been cleared.                                    *)
(***************************************************************************)
C28_NoTimerOutlivesRequest ==
  \A i \in Slots : Answered(i) => slots[i].timer # "armed"

====
